---- MODULE Spec2Model ----
(***************************************************************************)
(* Model of stratatools/manager.py: the Manager class that packs a         *)
(* cartridge record into the 0x71-byte EEPROM layout, encrypts two regions *)
(* of it under a key built from the key fragment, the machine number and   *)
(* the EEPROM uid, and the reverse path (decrypt, unpack).                 *)
(*                                                                         *)
(* A byte string is a sequence of bytes; the byte at Python offset o of a  *)
(* buffer buf is buf[o + 1].  A text string is a sequence of code points.  *)
(* A double is the sequence of the 8 bytes of its IEEE-754 bit pattern,    *)
(* the most significant byte first.                                        *)
(***************************************************************************)
EXTENDS Integers, Sequences, FiniteSets, TLC

VARIABLES
    pc,              \* where the caller is: "start", "encoded", "encode_failed",
                     \* "decoded"; "key_start", "key_built" under KeySpec
    R,               \* the cartridge given to encode
    machine_number,  \* the ids given to encode
    eeprom_uid,
    image,           \* the bytearray encode returned, which the caller gives to decode
    tampered,        \* <<offset, bit>> of the bit flipped in image, or NoTamper
    key,             \* the key build_key returned last
    dec_ids,         \* the ids given to decode
    received,        \* the bytes of image when decode was called
    out              \* what decode gave: its error or its record, and its steps

vars == <<pc, R, machine_number, eeprom_uid, image, tampered, key, dec_ids, received, out>>

(***************************************************************************)
(* Bytes and byte strings                                                  *)
(***************************************************************************)
EepromSize == 113

Zeros(n) == [i \in 1..n |-> 0]

\* b[lo:hi] of a buffer, as a byte string
Slice(buf, lo, hi) == SubSeq(buf, lo + 1, hi)

\* buf[off:off+len(bs)] = bs
Store(buf, off, bs) ==
    SubSeq(buf, 1, off) \o bs \o SubSeq(buf, off + Len(bs) + 1, Len(buf))

\* struct "<Ns": the first n bytes of bs, zero bytes appended when bs is shorter
PackS(n, bs) == [i \in 1..n |-> IF i <= Len(bs) THEN bs[i] ELSE 0]

\* struct "<H"
PackH(v) == <<v % 256, v \div 256>>

UnpackH(bs) == bs[1] + 256 * bs[2]

\* struct "<d": little-endian bytes of the bit pattern
PackD(d) == [i \in 1..8 |-> d[9 - i]]

UnpackD(bs) == [i \in 1..8 |-> bs[9 - i]]

\* a value struct "<H" accepts
FitsH(v) == v >= 0 /\ v <= 65535

\* ~b & 0xff
Complement(b) == 255 - b

RECURSIVE Pow2(_)
Pow2(n) == IF n = 0 THEN 1 ELSE 2 * Pow2(n - 1)

\* float(n) for an integer 0 <= n < 32, as a bit pattern
Log2(n) == CHOOSE e \in 0..4 : Pow2(e) <= n /\ n < Pow2(e + 1)

IntToDouble(n) ==
    IF n = 0 THEN Zeros(8)
    ELSE LET e == Log2(n)
             ex == 1023 + e
         IN  <<ex \div 16, (ex % 16) * 16 + (n - Pow2(e)) * Pow2(4 - e), 0, 0, 0, 0, 0, 0>>

\* int(d) of a bit pattern: kind "error" for NaN and the infinities (int
\* raises), "big" for a magnitude of 32 or more, else "int" and the value
\* truncated towards zero
DoubleToInt(d) ==
    LET neg == d[1] >= 128
        ex  == (d[1] % 128) * 16 + d[2] \div 16
        e   == ex - 1023
        mag == IF e < 0 THEN 0 ELSE Pow2(e) + (d[2] % 16) \div Pow2(4 - e)
    IN  IF ex = 2047 THEN [kind |-> "error", v |-> 0]
        ELSE IF e > 4 THEN [kind |-> "big", v |-> 0]
        ELSE [kind |-> "int", v |-> IF neg THEN 0 - mag ELSE mag]

(***************************************************************************)
(* Text: str.encode("utf-8"), and the decoding a protobuf string field     *)
(* applies to the bytes assigned to it.  Code points are below 0x800.      *)
(***************************************************************************)
Utf8Char(cp) == IF cp < 128 THEN <<cp>> ELSE <<192 + cp \div 64, 128 + (cp % 64)>>

RECURSIVE Utf8Encode(_)
Utf8Encode(s) == IF s = <<>> THEN <<>> ELSE Utf8Char(Head(s)) \o Utf8Encode(Tail(s))

IsCont(b) == b >= 128 /\ b <= 191

RECURSIVE Utf8Valid(_)
Utf8Valid(bs) ==
    IF bs = <<>> THEN TRUE
    ELSE IF bs[1] < 128 THEN Utf8Valid(Tail(bs))
    ELSE IF bs[1] >= 194 /\ bs[1] <= 223 /\ Len(bs) >= 2 /\ IsCont(bs[2])
         THEN Utf8Valid(Tail(Tail(bs)))
    ELSE FALSE

RECURSIVE Utf8Decode(_)
Utf8Decode(bs) ==
    IF bs = <<>> THEN <<>>
    ELSE IF bs[1] < 128 THEN <<bs[1]>> \o Utf8Decode(Tail(bs))
    ELSE <<(bs[1] - 192) * 64 + (bs[2] - 128)>> \o Utf8Decode(Tail(Tail(bs)))

\* bytes.split(b'\x00')[0]
RECURSIVE SplitZero(_)
SplitZero(bs) ==
    IF bs = <<>> \/ bs[1] = 0 THEN <<>> ELSE <<bs[1]>> \o SplitZero(Tail(bs))

(***************************************************************************)
(* Hexadecimal: bytearray.fromhex and bytes.hex                            *)
(***************************************************************************)
HexDigits == <<"0", "1", "2", "3", "4", "5", "6", "7", "8", "9", "a", "b", "c", "d", "e", "f">>

HexUpper == <<"0", "1", "2", "3", "4", "5", "6", "7", "8", "9", "A", "B", "C", "D", "E", "F">>

IsHexChar(c) == \E i \in 1..16 : HexDigits[i] = c \/ HexUpper[i] = c

HexVal(c) == (CHOOSE i \in 1..16 : HexDigits[i] = c \/ HexUpper[i] = c) - 1

FromHexOK(s) == Len(s) % 2 = 0 /\ \A i \in 1..Len(s) : IsHexChar(s[i])

FromHex(s) == [i \in 1..(Len(s) \div 2) |-> 16 * HexVal(s[2 * i - 1]) + HexVal(s[2 * i])]

RECURSIVE ToHex(_)
ToHex(bs) ==
    IF bs = <<>> THEN <<>>
    ELSE <<HexDigits[bs[1] \div 16 + 1], HexDigits[(bs[1] % 16) + 1]>> \o ToHex(Tail(bs))

(***************************************************************************)
(* The collaborators: material table, checksum and cipher                  *)
(***************************************************************************)
MaterialNames == {"ABS", "ABS_RED", "PC", "SR30"}

id_of_name == [n \in MaterialNames |->
                 CASE n = "ABS" -> 0 [] n = "ABS_RED" -> 1 [] n = "PC" -> 5 [] n = "SR30" -> 18]

KnownName(name) == name \in MaterialNames

get_id_from_name(name) == id_of_name[name]

KnownId(id) == \E n \in MaterialNames : id_of_name[n] = id

get_name_from_id(id) == CHOOSE n \in MaterialNames : id_of_name[n] = id

\* a 16-bit checksum: a position-weighted sum with odd weights, so that two
\* inputs that differ in a single bit have different checksums
RECURSIVE WeightedSum(_, _)
WeightedSum(bs, n) ==
    IF n = 0 THEN 0 ELSE (2 * n - 1) * bs[n] + WeightedSum(bs, n - 1)

checksum(bs) == WeightedSum(bs, Len(bs)) % 65536

\* a length-preserving cipher whose decrypt inverts encrypt under the same key
crypto_encrypt(k, pt) == [i \in 1..Len(pt) |-> (pt[i] + k[((i - 1) % 16) + 1]) % 256]

crypto_decrypt(k, ct) == [i \in 1..Len(ct) |-> (ct[i] + 256 - k[((i - 1) % 16) + 1]) % 256]

(***************************************************************************)
(* Manager.build_key                                                       *)
(***************************************************************************)
\* build_key with the sources of key[1] and key[15] exchanged
build_key_swapped(cartridge_key, mn, uid) ==
    << Complement(cartridge_key[1]), Complement(cartridge_key[2]), Complement(uid[3]),
       Complement(cartridge_key[7]), Complement(mn[1]), Complement(mn[3]),
       Complement(uid[7]), Complement(mn[7]), Complement(mn[8]), Complement(uid[2]),
       Complement(mn[4]), Complement(mn[2]), Complement(cartridge_key[8]),
       Complement(uid[6]), Complement(cartridge_key[4]), Complement(cartridge_key[3]) >>

\* build_key with key[8] taken from machine_number[6] again instead of [7]
build_key_repeated(cartridge_key, mn, uid) ==
    << Complement(cartridge_key[1]), Complement(cartridge_key[3]), Complement(uid[3]),
       Complement(cartridge_key[7]), Complement(mn[1]), Complement(mn[3]),
       Complement(uid[7]), Complement(mn[7]), Complement(mn[7]), Complement(uid[2]),
       Complement(mn[4]), Complement(mn[2]), Complement(cartridge_key[8]),
       Complement(uid[6]), Complement(cartridge_key[4]), Complement(cartridge_key[2]) >>

\* cartridge_key, machine_number and eeprom_uid are byte strings indexed
\* from 1 here: Python's x[j] is x[j + 1]
build_key(cartridge_key, mn, uid) ==
    << Complement(cartridge_key[1]),
       Complement(cartridge_key[3]),
       Complement(uid[3]),
       Complement(cartridge_key[7]),
       Complement(mn[1]),
       Complement(mn[3]),
       Complement(uid[7]),
       Complement(mn[7]),
       Complement(mn[8]),
       Complement(uid[2]),
       Complement(mn[4]),
       Complement(mn[2]),
       Complement(cartridge_key[8]),
       Complement(uid[6]),
       Complement(cartridge_key[4]),
       Complement(cartridge_key[2]) >>

(***************************************************************************)
(* Manager.pack                                                            *)
(***************************************************************************)
\* struct "<HBBBBH" of datetime dt
PackDate(dt) ==
    PackH(dt.year - 1900) \o <<dt.month, dt.day, dt.hour, dt.minute>> \o PackH(dt.second)

\* the conditions under which no statement of pack raises
PackOK(c) ==
    /\ KnownName(c.material_name)
    /\ FitsH(c.version)
    /\ FitsH(c.manufacturing_date.year - 1900)
    /\ FitsH(c.last_use_date.year - 1900)
    /\ FromHexOK(c.key_fragment)

pack(c) ==
    LET e0 == Zeros(EepromSize)
        e1 == Store(e0, 0, PackD(c.serial_number))
        e2 == Store(e1, 8, PackD(IntToDouble(get_id_from_name(c.material_name))))
        e3 == Store(e2, 16, PackS(20, Utf8Encode(c.manufacturing_lot)))
        e4 == Store(e3, 36, PackH(c.version))
        e5 == Store(e4, 40, PackDate(c.manufacturing_date))
        e6 == Store(e5, 48, PackDate(c.last_use_date))
        e7 == Store(e6, 56, PackD(c.initial_material_quantity))
        e8 == Store(e7, 64, PackH(checksum(Slice(e7, 0, 64))))
        e9 == Store(e8, 72, PackS(8, FromHex(c.key_fragment)))
        e10 == Store(e9, 80, PackH(checksum(Slice(e9, 72, 80))))
        e11 == Store(e10, 88, PackD(c.current_material_quantity))
        e12 == Store(e11, 98, PackH(checksum(Slice(e11, 88, 96))))
        e13 == Store(e12, 104, PackS(9, Utf8Encode(c.signature)))
    IN  e13

(***************************************************************************)
(* Manager.encrypt: cartridge_crypted is the same bytearray as             *)
(* cartridge_packed, so each read of cartridge_packed sees the writes made *)
(* through cartridge_crypted before it                                     *)
(***************************************************************************)
\* encrypt working on a copy: cartridge_packed keeps the plaintext
encrypt_copy(mn, uid, cartridge_packed) ==
    LET k  == build_key(Slice(cartridge_packed, 72, 80), mn, uid)
        b1 == Store(cartridge_packed, 0, crypto_encrypt(k, Slice(cartridge_packed, 0, 64)))
        b2 == Store(b1, 70, PackH(checksum(Slice(cartridge_packed, 0, 64))))
        b3 == Store(b2, 88, crypto_encrypt(k, Slice(cartridge_packed, 88, 96)))
        b4 == Store(b3, 96, PackH(checksum(Slice(cartridge_packed, 88, 96))))
    IN  b4

\* encrypt with the header checksum taken before the header is encrypted
encrypt_checksum_first(mn, uid, cartridge_packed) ==
    LET k  == build_key(Slice(cartridge_packed, 72, 80), mn, uid)
        b1 == Store(cartridge_packed, 70, PackH(checksum(Slice(cartridge_packed, 0, 64))))
        b2 == Store(b1, 0, crypto_encrypt(k, Slice(b1, 0, 64)))
        b3 == Store(b2, 88, crypto_encrypt(k, Slice(b2, 88, 96)))
        b4 == Store(b3, 96, PackH(checksum(Slice(b3, 88, 96))))
    IN  b4

encrypt(mn, uid, cartridge_packed) ==
    LET k  == build_key(Slice(cartridge_packed, 72, 80), mn, uid)
        b1 == Store(cartridge_packed, 0, crypto_encrypt(k, Slice(cartridge_packed, 0, 64)))
        b2 == Store(b1, 70, PackH(checksum(Slice(b1, 0, 64))))
        b3 == Store(b2, 88, crypto_encrypt(k, Slice(b2, 88, 96)))
        b4 == Store(b3, 96, PackH(checksum(Slice(b3, 88, 96))))
    IN  b4

\* Manager.encode
encode(mn, uid, c) == encrypt(mn, uid, pack(c))

(***************************************************************************)
(* Manager.decrypt: cartridge_packed is the same bytearray as              *)
(* cartridge_crypted, the caller's buffer; buf is that buffer when the     *)
(* call ends, trace the checks and writes made, in order                   *)
(***************************************************************************)
ErrCrypted == "invalid crypted content checksum"

ErrQuantity == "invalid current material quantity checksum"

ErrContent == "invalid content checksum"

\* decrypt without the check of the crypted content checksum
decrypt_unchecked_header(mn, uid, cartridge_crypted) ==
    LET k  == build_key(Slice(cartridge_crypted, 72, 80), mn, uid)
        b1 == Store(cartridge_crypted, 0, crypto_decrypt(k, Slice(cartridge_crypted, 0, 64)))
    IN  IF checksum(Slice(b1, 88, 96)) # UnpackH(Slice(b1, 96, 98))
        THEN [err |-> ErrQuantity, buf |-> b1, trace |-> <<"decrypt_header", "check_0x60">>]
        ELSE [err |-> "none",
              buf |-> Store(b1, 88, crypto_decrypt(k, Slice(b1, 88, 96))),
              trace |-> <<"decrypt_header", "check_0x60", "decrypt_quantity">>]

decrypt(mn, uid, cartridge_crypted) ==
    LET k == build_key(Slice(cartridge_crypted, 72, 80), mn, uid)
    IN  IF checksum(Slice(cartridge_crypted, 0, 64)) # UnpackH(Slice(cartridge_crypted, 70, 72))
        THEN [err |-> ErrCrypted, buf |-> cartridge_crypted, trace |-> <<"check_0x46">>]
        ELSE LET b1 == Store(cartridge_crypted, 0,
                             crypto_decrypt(k, Slice(cartridge_crypted, 0, 64)))
             IN  IF checksum(Slice(b1, 88, 96)) # UnpackH(Slice(b1, 96, 98))
                 THEN [err |-> ErrQuantity, buf |-> b1,
                       trace |-> <<"check_0x46", "decrypt_header", "check_0x60">>]
                 ELSE [err |-> "none",
                       buf |-> Store(b1, 88, crypto_decrypt(k, Slice(b1, 88, 96))),
                       trace |-> <<"check_0x46", "decrypt_header", "check_0x60",
                                   "decrypt_quantity">>]

(***************************************************************************)
(* Manager.unpack                                                          *)
(***************************************************************************)
NoCartridge == [none |-> TRUE]

IsLeap(y) == (y % 4 = 0 /\ y % 100 # 0) \/ y % 400 = 0

DaysInMonth(y, m) ==
    IF m = 2 THEN (IF IsLeap(y) THEN 29 ELSE 28)
    ELSE IF m \in {4, 6, 9, 11} THEN 30 ELSE 31

\* struct "<HBBBBH" read at off
UnpackDate(buf, off) ==
    [year |-> UnpackH(Slice(buf, off, off + 2)), month |-> buf[off + 3], day |-> buf[off + 4],
     hour |-> buf[off + 5], minute |-> buf[off + 6], second |-> UnpackH(Slice(buf, off + 6, off + 8))]

\* datetime.datetime(year + 1900, month, day, hour, minute, second) does not raise
DatetimeOK(f) ==
    /\ f.year + 1900 <= 9999
    /\ f.month >= 1 /\ f.month <= 12
    /\ f.day >= 1 /\ f.day <= DaysInMonth(f.year + 1900, f.month)
    /\ f.hour <= 23 /\ f.minute <= 59 /\ f.second <= 59

\* the datetime built from the fields, as the Timestamp holds it
ToDate(f) ==
    [year |-> f.year + 1900, month |-> f.month, day |-> f.day, hour |-> f.hour,
     minute |-> f.minute, second |-> f.second, microsecond |-> 0]

\* the body of unpack after its two checks: lines 118 to 175
read_fields(cartridge_packed, tr) ==
    LET serial_number == UnpackD(Slice(cartridge_packed, 0, 8))
        material_id == DoubleToInt(UnpackD(Slice(cartridge_packed, 8, 16)))
        manufacturing_lot == SplitZero(Slice(cartridge_packed, 16, 36))
        mfg == UnpackDate(cartridge_packed, 40)
        use == UnpackDate(cartridge_packed, 48)
        initial_material_quantity == UnpackD(Slice(cartridge_packed, 56, 64))
        version == UnpackH(Slice(cartridge_packed, 36, 38))
        key_fragment == ToHex(Slice(cartridge_packed, 72, 80))
        current_material_quantity == UnpackD(Slice(cartridge_packed, 88, 96))
        signature == Slice(cartridge_packed, 104, 113)
    IN  IF material_id.kind = "error"
        THEN [err |-> "ValueError", rec |-> NoCartridge, trace |-> tr]
        ELSE IF material_id.kind = "big" \/ ~KnownId(material_id.v)
        THEN [err |-> "UnknownMaterial", rec |-> NoCartridge, trace |-> tr]
        ELSE IF ~DatetimeOK(mfg) \/ ~DatetimeOK(use)
        THEN [err |-> "ValueError", rec |-> NoCartridge, trace |-> tr]
        ELSE IF ~Utf8Valid(manufacturing_lot) \/ ~Utf8Valid(signature)
        THEN [err |-> "ValueError", rec |-> NoCartridge, trace |-> tr]
        ELSE [err |-> "none",
              rec |-> [serial_number |-> serial_number,
                       material_name |-> get_name_from_id(material_id.v),
                       manufacturing_lot |-> Utf8Decode(manufacturing_lot),
                       version |-> version,
                       manufacturing_date |-> ToDate(mfg),
                       last_use_date |-> ToDate(use),
                       initial_material_quantity |-> initial_material_quantity,
                       current_material_quantity |-> current_material_quantity,
                       key_fragment |-> key_fragment,
                       signature |-> Utf8Decode(signature)],
              trace |-> tr]

\* unpack without the check of the current material quantity checksum
unpack_unchecked_quantity(cartridge_packed) ==
    IF checksum(Slice(cartridge_packed, 0, 64)) # UnpackH(Slice(cartridge_packed, 64, 66))
    THEN [err |-> ErrContent, rec |-> NoCartridge, trace |-> <<"check_0x40">>]
    ELSE read_fields(cartridge_packed, <<"check_0x40", "read_fields">>)

unpack(cartridge_packed) ==
    IF checksum(Slice(cartridge_packed, 0, 64)) # UnpackH(Slice(cartridge_packed, 64, 66))
    THEN [err |-> ErrContent, rec |-> NoCartridge, trace |-> <<"check_0x40">>]
    ELSE IF checksum(Slice(cartridge_packed, 88, 96)) # UnpackH(Slice(cartridge_packed, 98, 100))
    THEN [err |-> ErrQuantity, rec |-> NoCartridge, trace |-> <<"check_0x40", "check_0x62">>]
    ELSE read_fields(cartridge_packed, <<"check_0x40", "check_0x62", "read_fields">>)

\* Manager.decode
decode(mn, uid, cartridge_crypted) ==
    LET d == decrypt(mn, uid, cartridge_crypted)
    IN  IF d.err # "none"
        THEN [err |-> d.err, rec |-> NoCartridge, buf |-> d.buf, trace |-> d.trace]
        ELSE LET u == unpack(d.buf)
             IN  [err |-> u.err, rec |-> u.rec, buf |-> d.buf, trace |-> d.trace \o u.trace]

(***************************************************************************)
(* Inputs                                                                  *)
(***************************************************************************)
\* how many bytes past its 20-byte field a manufacturing lot may run
MaxOver == 1

\* how many bit positions of a byte a flip may choose among
NumBits == 2

LotWidth == 20

SignatureWidth == 9

Lot(n) == [i \in 1..n |-> 65 + (i % 26)]

\* 19 letters and a two-byte character: 20 characters, 21 bytes
LotWide == [i \in 1..20 |-> IF i = 20 THEN 233 ELSE 65 + (i % 26)]

Lots == {Lot(n) : n \in {0, 4, LotWidth} \cup (LotWidth + 1)..(LotWidth + MaxOver)} \cup {LotWide}

Signatures == {<<>>, <<97, 98, 99>>, <<83, 84, 82, 65, 84, 65, 83, 89, 83>>}

Base ==
    [serial_number |-> <<65, 50, 214, 135, 0, 0, 0, 0>>,
     material_name |-> "PC",
     manufacturing_lot |-> Lot(4),
     version |-> 1,
     manufacturing_date |-> [year |-> 2016, month |-> 2, day |-> 29, hour |-> 13,
                             minute |-> 45, second |-> 59, microsecond |-> 0],
     last_use_date |-> [year |-> 2017, month |-> 12, day |-> 31, hour |-> 23,
                        minute |-> 59, second |-> 7, microsecond |-> 0],
     initial_material_quantity |-> <<64, 76, 38, 102, 102, 102, 102, 102>>,
     current_material_quantity |-> <<64, 69, 64, 0, 0, 0, 0, 0>>,
     key_fragment |-> <<"5", "5", "a", "a", "0", "1", "f", "e", "1", "0", "c", "3", "d", "2", "7", "b">>,
     signature |-> <<83, 84, 82, 65, 84, 65, 83, 89, 83>>]

ZeroFragment == [i \in 1..16 |-> "0"]

Records ==
    {[Base EXCEPT !.manufacturing_lot = l] : l \in Lots}
    \cup {[Base EXCEPT !.signature = g] : g \in Signatures}
    \cup {[Base EXCEPT !.material_name = m] : m \in {"ABS", "SR30", "NYLON"}}
    \cup {[Base EXCEPT !.serial_number = Zeros(8)],
          [Base EXCEPT !.manufacturing_date.microsecond = 250000],
          [Base EXCEPT !.key_fragment = ZeroFragment]}

IdsA == <<(<<17, 34, 51, 68, 85, 102, 119, 136>>), (<<35, 94, 145, 12, 164, 55, 216, 107>>)>>

IdsB == <<Zeros(8), Zeros(8)>>

Inputs ==
    {<<r, IdsA>> : r \in Records}
    \cup {<<r, IdsB>> : r \in {Base, [Base EXCEPT !.key_fragment = ZeroFragment]}}

BitOrder == <<0, 7, 4, 1, 6, 3, 5, 2>>

TamperBits == {BitOrder[i] : i \in 1..(IF NumBits < 8 THEN NumBits ELSE 8)}

IdDeltas == {1, 128}

\* id with byte j (from 0) increased by d, modulo 256
Bump(id, j, d) == [id EXCEPT ![j + 1] = (id[j + 1] + d) % 256]

\* the ids decode may be given: those of encode, or those with one byte changed
DecodeIds(mn, uid) ==
    {<<mn, uid>>}
    \cup {<<Bump(mn, j, d), uid>> : j \in 0..7, d \in IdDeltas}
    \cup {<<mn, Bump(uid, j, d)>> : j \in 0..7, d \in IdDeltas}

FlipBit(b, n) == IF (b \div Pow2(n)) % 2 = 1 THEN b - Pow2(n) ELSE b + Pow2(n)

NoTamper == <<>>

(***************************************************************************)
(* The state machine: a caller encodes R, the stored image may have one    *)
(* bit flipped, and the caller decodes the bytearray it holds              *)
(***************************************************************************)
Init ==
    /\ \E in \in Inputs :
          /\ R = in[1]
          /\ machine_number = in[2][1]
          /\ eeprom_uid = in[2][2]
    /\ pc = "start"
    /\ image = Zeros(EepromSize)
    /\ received = Zeros(EepromSize)
    /\ tampered = NoTamper
    /\ key = Zeros(16)
    /\ dec_ids = <<Zeros(8), Zeros(8)>>
    /\ out = [err |-> "not run", rec |-> NoCartridge, trace |-> <<>>]

Encode ==
    /\ pc = "start"
    /\ IF PackOK(R)
       THEN /\ image' = encode(machine_number, eeprom_uid, R)
            /\ key' = build_key(Slice(pack(R), 72, 80), machine_number, eeprom_uid)
            /\ pc' = "encoded"
       ELSE /\ pc' = "encode_failed"
            /\ UNCHANGED <<image, key>>
    /\ UNCHANGED <<R, machine_number, eeprom_uid, tampered, dec_ids, received, out>>

Tamper ==
    /\ pc = "encoded"
    /\ tampered = NoTamper
    /\ \E off \in 0..(EepromSize - 1), n \in TamperBits :
          /\ image' = [image EXCEPT ![off + 1] = FlipBit(image[off + 1], n)]
          /\ tampered' = <<off, n>>
    /\ UNCHANGED <<pc, R, machine_number, eeprom_uid, key, dec_ids, received, out>>

Decode ==
    /\ pc = "encoded"
    /\ \E ids \in DecodeIds(machine_number, eeprom_uid) :
          \E d \in {decode(ids[1], ids[2], image)} :
              /\ dec_ids' = ids
              /\ key' = build_key(Slice(image, 72, 80), ids[1], ids[2])
              /\ out' = [err |-> d.err, rec |-> d.rec, trace |-> d.trace]
              /\ image' = d.buf
    /\ received' = image
    /\ pc' = "decoded"
    /\ UNCHANGED <<R, machine_number, eeprom_uid, tampered>>

Next == Encode \/ Tamper \/ Decode

Spec == Init /\ [][Next]_vars

(***************************************************************************)
(* Properties                                                              *)
(***************************************************************************)
IntegrityErrors == {ErrCrypted, ErrQuantity, ErrContent}

FullTrace ==
    <<"check_0x46", "decrypt_header", "check_0x60", "decrypt_quantity",
      "check_0x40", "check_0x62", "read_fields">>

SameIds == dec_ids = <<machine_number, eeprom_uid>>

\* a record the round trip is stated for
ValidRecord(c) ==
    /\ KnownName(c.material_name)
    /\ Len(Utf8Encode(c.manufacturing_lot)) <= LotWidth
    /\ Len(Utf8Encode(c.signature)) <= SignatureWidth
    /\ c.manufacturing_date.microsecond = 0
    /\ c.last_use_date.microsecond = 0

\* C1: decoding, with the same ids, the untouched image that encode made of
\* a valid record succeeds and returns that record, field for field.
C1_RoundTrip ==
    (pc = "decoded" /\ tampered = NoTamper /\ SameIds /\ ValidRecord(R))
        => (out.err = "none" /\ out.rec = R)

\* C5: a manufacturing lot longer than 20 bytes in UTF-8 makes encode fail:
\* no image is produced.
C5_LotOverflowFails ==
    Len(Utf8Encode(R.manufacturing_lot)) > LotWidth => pc \notin {"encoded", "decoded"}

\* C9: decode leaves the caller's buffer as it received it, on success and
\* on every failure.
C9_DecodeKeepsBuffer ==
    pc = "decoded" => image = received

\* C10: unpack returns the manufacturing lot and the signature cut at their
\* first zero byte, so pack's zero padding never shows in the record.
C10_StringsCutAtZero ==
    (pc = "decoded" /\ out.err = "none")
        => /\ Utf8Encode(out.rec.manufacturing_lot) = SplitZero(Slice(image, 16, 36))
           /\ Utf8Encode(out.rec.signature) = SplitZero(Slice(image, 104, 113))

\* the four comparisons of decode, made on the buffer as decode received it
Stored(buf, off) == UnpackH(Slice(buf, off, off + 2))

DecodeKey == build_key(Slice(received, 72, 80), dec_ids[1], dec_ids[2])

Gate46 == Stored(received, 70) = checksum(Slice(received, 0, 64))

Gate60 == Stored(received, 96) = checksum(Slice(received, 88, 96))

\* the region [lo, hi) of the received buffer, decrypted under k
Decrypted(k, lo, hi) == crypto_decrypt(k, Slice(received, lo, hi))

Gate40 == Stored(received, 64) = checksum(Decrypted(DecodeKey, 0, 64))

Gate62 == Stored(received, 98) = checksum(Decrypted(DecodeKey, 88, 96))

\* C2: after one bit of the header or of the quantity region of an encoded
\* image is flipped, decode with the same ids fails at the checksum of that
\* region, before decrypting it, and returns no record.
C2_TamperDetected ==
    (pc = "decoded" /\ SameIds /\ tampered # NoTamper)
        => /\ tampered[1] \in 0..63
                => /\ out.err = ErrCrypted
                   /\ out.rec = NoCartridge
                   /\ out.trace = <<"check_0x46">>
           /\ tampered[1] \in 88..95
                => /\ out.err = ErrQuantity
                   /\ out.rec = NoCartridge
                   /\ out.trace = <<"check_0x46", "decrypt_header", "check_0x60">>

C2_Witness ==
    /\ pc = "decoded" /\ SameIds /\ tampered # NoTamper
    /\ tampered[1] \in 88..95
    /\ out.err = ErrQuantity

\* C6: decode reads the fields only after its four comparisons passed, made
\* in the order 0x46, 0x60 (each on the received bytes, before that region
\* is decrypted), 0x40, 0x62 (on the decrypted bytes); the first one that
\* fails ends the call with its error and no record.
C6_GatesInOrder ==
    pc = "decoded"
        => \A g46 \in {Gate46}, g60 \in {Gate60}, g40 \in {Gate40}, g62 \in {Gate62} :
           /\ out.rec # NoCartridge => (g46 /\ g60 /\ g40 /\ g62)
           /\ ~g46 => (out.err = ErrCrypted /\ out.trace = SubSeq(FullTrace, 1, 1))
           /\ (g46 /\ ~g60) => (out.err = ErrQuantity /\ out.trace = SubSeq(FullTrace, 1, 3))
           /\ (g46 /\ g60 /\ ~g40) => (out.err = ErrContent /\ out.trace = SubSeq(FullTrace, 1, 5))
           /\ (g46 /\ g60 /\ g40 /\ ~g62)
                => (out.err = ErrQuantity /\ out.trace = SubSeq(FullTrace, 1, 6))
           /\ (g46 /\ g60 /\ g40 /\ g62) => out.trace = FullTrace
           /\ out.err # "none" => out.rec = NoCartridge

C6_Witness ==
    /\ pc = "decoded"
    /\ Gate46 /\ Gate60 /\ Gate40 /\ ~Gate62
    /\ out.err = ErrQuantity

\* the bytes of the ids that build_key reads (offsets from 0)
UsedMachineBytes == {0, 1, 2, 3, 6, 7}

UsedUidBytes == {1, 2, 5, 6}

DiffersInUsed ==
    \/ \E j \in UsedMachineBytes : dec_ids[1][j + 1] # machine_number[j + 1]
    \/ \E j \in UsedUidBytes : dec_ids[2][j + 1] # eeprom_uid[j + 1]

NumericSame(a, b) ==
    /\ a.serial_number = b.serial_number
    /\ a.version = b.version
    /\ a.initial_material_quantity = b.initial_material_quantity
    /\ a.current_material_quantity = b.current_material_quantity

C7_Token60OverPlaintext ==
    (pc = "encoded" /\ tampered = NoTamper)
        => /\ Stored(image, 96) = checksum(Slice(pack(R), 88, 96))
           /\ Stored(image, 96) = Stored(image, 98)

\* C7 as amended: in an image made by encode the value at 0x60 is the
\* checksum of the encrypted quantity bytes at [0x58,0x60) of that image,
\* and the value at 0x62 is the checksum of the plaintext quantity bytes.
C7_Token60OverCiphertext ==
    (pc = "encoded" /\ tampered = NoTamper)
        => /\ Stored(image, 96) = checksum(Slice(image, 88, 96))
           /\ Stored(image, 98) = checksum(Slice(pack(R), 88, 96))

C7_Witness ==
    /\ pc = "encoded" /\ tampered = NoTamper
    /\ checksum(Slice(image, 88, 96)) # checksum(Slice(pack(R), 88, 96))

\* C8: in an image made by encode the value at 0x46 is the checksum of the
\* encrypted header bytes [0x00,0x40) of that image, and the value at 0x40
\* is the checksum of the header bytes as pack wrote them.
C8_HeaderTokens ==
    (pc = "encoded" /\ tampered = NoTamper)
        => /\ Stored(image, 70) = checksum(Slice(image, 0, 64))
           /\ Stored(image, 64) = checksum(Slice(pack(R), 0, 64))

C8_Witness ==
    /\ pc = "encoded" /\ tampered = NoTamper
    /\ checksum(Slice(image, 0, 64)) # checksum(Slice(pack(R), 0, 64))
    /\ Slice(image, 0, 64) # Slice(pack(R), 0, 64)

(***************************************************************************)
(* Key derivation on its own: build_key applied to a key fragment and ids  *)
(* drawn from a wider set                                                  *)
(***************************************************************************)
KeyFragments ==
    {ZeroFragment, Base.key_fragment, [i \in 1..16 |-> "f"],
     <<"0", "1", "2", "3", "4", "5", "6", "7", "8", "9", "A", "B", "C", "D", "E", "F">>}

KeyIds ==
    {Zeros(8), IdsA[1], IdsA[2]} \cup {Bump(IdsA[1], j, d) : j \in 0..7, d \in IdDeltas}

BuildKey ==
    /\ pc = "key_start"
    /\ key' = build_key(Slice(pack(R), 72, 80), machine_number, eeprom_uid)
    /\ pc' = "key_built"
    /\ UNCHANGED <<R, machine_number, eeprom_uid, image, tampered, dec_ids, received, out>>

KeyInit ==
    /\ \E kf \in KeyFragments : R = [Base EXCEPT !.key_fragment = kf]
    /\ machine_number \in KeyIds
    /\ eeprom_uid \in KeyIds
    /\ pc = "key_start"
    /\ image = Zeros(EepromSize)
    /\ received = Zeros(EepromSize)
    /\ tampered = NoTamper
    /\ key = Zeros(16)
    /\ dec_ids = <<Zeros(8), Zeros(8)>>
    /\ out = [err |-> "not run", rec |-> NoCartridge, trace |-> <<>>]

KeySpec == KeyInit /\ [][BuildKey]_vars

RECURSIVE Xor(_, _)
Xor(a, b) == IF a = 0 /\ b = 0 THEN 0 ELSE ((a + b) % 2) + 2 * Xor(a \div 2, b \div 2)

\* output index (from 0) -> source and source index (from 0)
KeyTable ==
    << <<"key_fragment", 0>>, <<"key_fragment", 2>>, <<"device_id", 2>>, <<"key_fragment", 6>>,
       <<"machine_id", 0>>, <<"machine_id", 2>>, <<"device_id", 6>>, <<"machine_id", 6>>,
       <<"machine_id", 7>>, <<"device_id", 1>>, <<"machine_id", 3>>, <<"machine_id", 1>>,
       <<"key_fragment", 7>>, <<"device_id", 5>>, <<"key_fragment", 3>>, <<"key_fragment", 1>> >>

KeyInputs ==
    [key_fragment |-> FromHex(R.key_fragment), machine_id |-> machine_number,
     device_id |-> eeprom_uid]

Source(in, e) == in[e[1]][e[2] + 1]

SampleBytes == {0, 1, 85, 128, 254, 255}

\* C4: the key has 16 bytes, byte i is 0xFF xor the source byte the table
\* gives for i; changing one source byte of the table changes that output
\* byte and no other; all-zero inputs give sixteen 0xFF bytes.
C4_KeyTable ==
    pc = "key_built"
        => \A in \in {KeyInputs} :
           /\ Len(key) = 16
           /\ \A i \in 1..16 : key[i] = Xor(255, Source(in, KeyTable[i]))
           /\ \A i \in 1..16 : \A v \in SampleBytes \ {Source(in, KeyTable[i])} :
                 \A in2 \in {[in EXCEPT ![KeyTable[i][1]][KeyTable[i][2] + 1] = v]} :
                 \A k2 \in {build_key(in2.key_fragment, in2.machine_id, in2.device_id)} :
                    \A j \in 1..16 : (k2[j] # key[j]) <=> (j = i)
           /\ (\A n \in {"key_fragment", "machine_id", "device_id"} : in[n] = Zeros(8))
                 => key = [i \in 1..16 |-> 255]

C4_Witness ==
    /\ pc = "key_built"
    /\ \A n \in {"key_fragment", "machine_id", "device_id"} : KeyInputs[n] = Zeros(8)
    /\ key = [i \in 1..16 |-> 255]

====
